---- MODULE Spec2Model ----
(***************************************************************************)
(* Model of app.py, the work-and-energy calculator for rigid bodies.       *)
(*                                                                         *)
(* Numbers.  The program computes with Python floats and NumPy float64     *)
(* arrays.  The model computes with the same IEEE 754 binary64 values:     *)
(* every sum, product, quotient and root is the exact result rounded to    *)
(* nearest, ties to even, with subnormal numbers, infinities and the NaN,  *)
(* and a text of two decimals is made from the binary value.               *)
(*                                                                         *)
(* Powers.  x ** 2 on a Python float is float.__pow__, which calls pow of  *)
(* the C library and raises OverflowError on an infinite result.  That     *)
(* pow is accurate to within one unit of the last place but not correctly  *)
(* rounded, and which of the two neighbouring doubles it returns depends   *)
(* on the library: glibc 2.36 returns the farther one for 95.97 and the    *)
(* nearer one for 0.3.  Each call draws the set of the arguments whose     *)
(* square is rounded to the farther neighbour.  x ** 2 on a NumPy array    *)
(* multiplies each element by itself.                                      *)
(*                                                                         *)
(* Shape of the state machine.  Every operation of the program is a pure   *)
(* function of its arguments, and main() is one recomputation pass over    *)
(* the widget values.  Init draws one call (function name and arguments,   *)
(* or view and widget values); the action of that function runs the whole  *)
(* call and stores what it returned or raised.                             *)
(*                                                                         *)
(* Strings.  The shape and view names are those of the program written     *)
(* in ASCII, each accented vowel replaced by the plain vowel.              *)
(***************************************************************************)
EXTENDS Integers, Sequences, FiniteSets, TLC

VARIABLES call, pc, ret

vars == <<call, pc, ret>>

(***************************************************************************)
(* Bounds                                                                  *)
(***************************************************************************)
MaxLen == 3

(***************************************************************************)
(* Natural numbers of any size: sequences of limbs in base 2^14, least     *)
(* significant limb first, no zero limb at the top; <<>> is 0.  They carry *)
(* the 53-bit significands of the doubles and their 106-bit products.      *)
(***************************************************************************)
LimbBits == 14

Base == 2^LimbBits

RECURSIVE Pow2Int(_)
Pow2Int(k) == IF k = 0 THEN 1 ELSE 2 * Pow2Int(k - 1)

RECURSIVE BTrim(_)
BTrim(a) ==
    IF Len(a) = 0 THEN a
    ELSE IF a[Len(a)] = 0 THEN BTrim(SubSeq(a, 1, Len(a) - 1))
    ELSE a

RECURSIVE BFromInt(_)
BFromInt(n) == IF n = 0 THEN <<>> ELSE <<n % Base>> \o BFromInt(n \div Base)

RECURSIVE BToInt(_)
BToInt(a) == IF Len(a) = 0 THEN 0 ELSE a[1] + Base * BToInt(Tail(a))

BLimb(a, i) == IF i <= Len(a) THEN a[i] ELSE 0

\* -1, 0 or 1 as a < b, a = b or a > b, comparing from limb i downwards
RECURSIVE BCmpFrom(_, _, _)
BCmpFrom(a, b, i) ==
    IF i = 0 THEN 0
    ELSE IF a[i] < b[i] THEN -1
    ELSE IF a[i] > b[i] THEN 1
    ELSE BCmpFrom(a, b, i - 1)

BCmp(a, b) ==
    IF Len(a) < Len(b) THEN -1
    ELSE IF Len(a) > Len(b) THEN 1
    ELSE BCmpFrom(a, b, Len(a))

RECURSIVE BAddFrom(_, _, _, _)
BAddFrom(a, b, i, c) ==
    IF i > Len(a) /\ i > Len(b)
    THEN IF c = 0 THEN <<>> ELSE <<c>>
    ELSE LET t == BLimb(a, i) + BLimb(b, i) + c
         IN  <<t % Base>> \o BAddFrom(a, b, i + 1, t \div Base)

BAdd(a, b) == BAddFrom(a, b, 1, 0)

\* a - b for a >= b
RECURSIVE BSubFrom(_, _, _, _)
BSubFrom(a, b, i, c) ==
    IF i > Len(a) THEN <<>>
    ELSE LET t == a[i] - BLimb(b, i) - c
         IN  <<t % Base>> \o BSubFrom(a, b, i + 1, IF t < 0 THEN 1 ELSE 0)

BSub(a, b) == BTrim(BSubFrom(a, b, 1, 0))

\* a * k for 0 <= k <= Base
RECURSIVE BMulSmallFrom(_, _, _, _)
BMulSmallFrom(a, k, i, c) ==
    IF i > Len(a)
    THEN IF c = 0 THEN <<>> ELSE <<c>>
    ELSE LET t == a[i] * k + c
         IN  <<t % Base>> \o BMulSmallFrom(a, k, i + 1, t \div Base)

BMulSmall(a, k) == IF k = 0 THEN <<>> ELSE BMulSmallFrom(a, k, 1, 0)

\* a * Base^n
BShiftLimbs(a, n) == IF Len(a) = 0 THEN a ELSE [i \in 1..n |-> 0] \o a

RECURSIVE BMulFrom(_, _, _)
BMulFrom(a, b, i) ==
    IF i > Len(b) THEN <<>>
    ELSE BAdd(BShiftLimbs(BMulSmall(a, b[i]), i - 1), BMulFrom(a, b, i + 1))

BMul(a, b) == BMulFrom(a, b, 1)

\* The quotient of a by d, 1 <= d <= Base, from limb i downwards with
\* remainder r so far
RECURSIVE BDivSmallFrom(_, _, _, _)
BDivSmallFrom(a, d, i, r) ==
    IF i = 0 THEN <<>>
    ELSE LET t == r * Base + a[i]
         IN  BDivSmallFrom(a, d, i - 1, t % d) \o <<t \div d>>

BDivSmall(a, d) == BTrim(BDivSmallFrom(a, d, Len(a), 0))

\* a * 2^k
BShl(a, k) == BShiftLimbs(BMulSmall(a, Pow2Int(k % LimbBits)), k \div LimbBits)

\* a \div 2^k
BShr(a, k) ==
    IF k \div LimbBits >= Len(a) THEN <<>>
    ELSE BDivSmall(SubSeq(a, k \div LimbBits + 1, Len(a)), Pow2Int(k % LimbBits))

\* a % 2^k
BLowBits(a, k) ==
    IF k \div LimbBits >= Len(a) THEN a
    ELSE BTrim(SubSeq(a, 1, k \div LimbBits)
               \o <<a[k \div LimbBits + 1] % Pow2Int(k % LimbBits)>>)

RECURSIVE BitLenSmall(_)
BitLenSmall(n) == IF n = 0 THEN 0 ELSE 1 + BitLenSmall(n \div 2)

BBitLen(a) == IF Len(a) = 0 THEN 0 ELSE LimbBits * (Len(a) - 1) + BitLenSmall(a[Len(a)])

BOdd(a) == Len(a) > 0 /\ a[1] % 2 = 1

\* Long division a by b, b # 0: <<quotient, remainder>>.  Each quotient
\* limb lies between the quotients of the two top limbs of the remainder by
\* the top limb of b plus one and by the top limb of b, and is found there
\* by binary search: the largest q in lo..hi with q * b <= r.
RECURSIVE BDigit(_, _, _, _)
BDigit(r, b, lo, hi) ==
    IF lo = hi THEN lo
    ELSE LET mid == (lo + hi + 1) \div 2
         IN  IF BCmp(BMulSmall(b, mid), r) <= 0
             THEN BDigit(r, b, mid, hi)
             ELSE BDigit(r, b, lo, mid - 1)

\* The quotient limb of t by b, t < b * Base, t2 being the two top limbs of t
BQuotientLimb(t, b, t2) ==
    BDigit(t, b, t2 \div (b[Len(b)] + 1),
           IF t2 \div b[Len(b)] < Base THEN t2 \div b[Len(b)] ELSE Base - 1)

BAppendLimb(qr, q) == <<qr[1] \o <<q>>, qr[2]>>

RECURSIVE BDivModFrom(_, _, _, _)
RECURSIVE BDivModStep(_, _, _, _)
RECURSIVE BDivModRest(_, _, _, _, _)
BDivModFrom(a, b, i, r) ==
    IF i = 0 THEN <<<<>>, r>> ELSE BDivModStep(a, b, i, BTrim(<<a[i]>> \o r))

\* One step of the long division: t is the remainder so far with limb i of
\* a brought down
BDivModStep(a, b, i, t) ==
    BDivModRest(a, b, i, t,
                BQuotientLimb(t, b, BLimb(t, Len(b) + 1) * Base + BLimb(t, Len(b))))

BDivModRest(a, b, i, t, q) ==
    BAppendLimb(BDivModFrom(a, b, i - 1, BSub(t, BMulSmall(b, q))), q)

BTrimQuotient(qr) == <<BTrim(qr[1]), qr[2]>>

BDivMod(a, b) == BTrimQuotient(BDivModFrom(a, b, Len(a), <<>>))

(***************************************************************************)
(* IEEE 754 binary64, round to nearest, ties to even.  A finite double is  *)
(* [sign, man, exp] with value (-1)^sign * man * 2^exp: man is a natural   *)
(* of exactly 53 bits for a normal number, of fewer bits with the least    *)
(* exponent for a subnormal one, and <<>> for the two zeros.  The          *)
(* infinities and the NaN carry an exponent above the largest finite one.  *)
(***************************************************************************)
Precision == 53

\* The exponents of the least subnormal and of the largest finite double
MinExp == -1074

MaxExp == 971

FZero(s) == [sign |-> s, man |-> <<>>, exp |-> 0]

\* 0.0, which is also the value of the int 0, and -0.0
Zero == FZero(0)

NegZero == FZero(1)

Inf(s) == [sign |-> s, man |-> <<>>, exp |-> MaxExp + 1]

NaN == [sign |-> 0, man |-> <<1>>, exp |-> MaxExp + 1]

IsNaN(x) == x.exp > MaxExp /\ x.man # <<>>

IsInf(x) == x.exp > MaxExp /\ x.man = <<>>

IsZero(x) == x.exp <= MaxExp /\ x.man = <<>>

\* A rounded significand m at exponent e: m has 54 bits after a carry out
\* of the rounding, is zero after an underflow, and the value is infinite
\* when the exponent passes the largest
Finite(s, m, e) ==
    IF m = <<>> THEN FZero(s)
    ELSE IF e > MaxExp THEN Inf(s)
    ELSE [sign |-> s, man |-> m, exp |-> e]

Normalize(s, m, e) ==
    IF BBitLen(m) > Precision THEN Finite(s, BShr(m, 1), e + 1) ELSE Finite(s, m, e)

\* q is n without its k low bits, c compares those bits with half a unit
\* of the last place of q.  To nearest, q goes up above the half, and at
\* the half when it is odd; an inexact value rounded the other way goes to
\* the neighbour on its other side
GoesUp(q, c, sticky, inexact, nearest) ==
    inexact /\ ((c > 0 \/ (c = 0 /\ (sticky \/ BOdd(q)))) <=> nearest)

RoundUp(s, q, e, c, sticky, inexact, nearest) ==
    Normalize(s, IF GoesUp(q, c, sticky, inexact, nearest) THEN BAdd(q, <<1>>) ELSE q, e)

RoundLow(s, n, e, sticky, k, low, nearest) ==
    RoundUp(s, BShr(n, k), e + k, BCmp(low, BShl(<<1>>, k - 1)), sticky,
            sticky \/ low # <<>>, nearest)

\* n has k bits more than a significand at its exponent may have
RoundBits(s, n, e, sticky, k, nearest) ==
    IF k <= 0
    THEN Finite(s, BShl(n, -k), e + k)
    ELSE RoundLow(s, n, e, sticky, k, BLowBits(n, k), nearest)

\* One of the two doubles next to (-1)^s * n * 2^e, for n # 0: the nearest
\* one, or the other one when the value is not a double; sticky tells
\* that n stands for a value slightly above n
RoundTo(s, n, e, sticky, nearest) ==
    RoundBits(s, n, e, sticky,
              IF BBitLen(n) - Precision > MinExp - e
              THEN BBitLen(n) - Precision ELSE MinExp - e, nearest)

\* The double nearest to (-1)^s * n * 2^e, for n # 0
Round(s, n, e, sticky) == RoundTo(s, n, e, sticky, TRUE)

\* float(n) for an int n
Float(n) ==
    IF n = 0 THEN Zero
    ELSE Round(IF n < 0 THEN 1 ELSE 0, BFromInt(IF n < 0 THEN -n ELSE n), 0, FALSE)

Neg(a) == IF IsNaN(a) THEN a ELSE [a EXCEPT !.sign = 1 - a.sign]

FAbs(a) == [a EXCEPT !.sign = 0]

\* a + b for finite a and b with a.exp >= b.exp, neither zero.  Beyond 56
\* binary places b is less than a quarter of the last place of a and a + b
\* rounds to a.
\* m is the significand of a at the exponent of b, c compares m with the
\* significand of b: the magnitudes add under equal signs, and the smaller
\* is taken from the larger, whose sign the result has, under opposite ones
AddSignificands(a, b, m, c) ==
    IF a.sign # b.sign /\ c = 0 THEN Zero
    ELSE Round(IF a.sign = b.sign \/ c > 0 THEN a.sign ELSE b.sign,
               IF a.sign = b.sign THEN BAdd(m, b.man)
               ELSE IF c > 0 THEN BSub(m, b.man) ELSE BSub(b.man, m),
               b.exp, FALSE)

AddShifted(a, b, m) == AddSignificands(a, b, m, BCmp(m, b.man))

AddAligned(a, b) ==
    IF a.exp - b.exp > Precision + 3 THEN a
    ELSE AddShifted(a, b, BShl(a.man, a.exp - b.exp))

Add(a, b) ==
    IF IsNaN(a) \/ IsNaN(b) THEN NaN
    ELSE IF IsInf(a) THEN (IF IsInf(b) /\ a.sign # b.sign THEN NaN ELSE a)
    ELSE IF IsInf(b) THEN b
    ELSE IF IsZero(a) /\ IsZero(b) THEN (IF a.sign = b.sign THEN a ELSE Zero)
    ELSE IF IsZero(a) THEN b
    ELSE IF IsZero(b) THEN a
    ELSE AddAligned(IF a.exp >= b.exp THEN a ELSE b, IF a.exp >= b.exp THEN b ELSE a)

Sub(a, b) == Add(a, Neg(b))

\* The sign of a product and of a quotient
SignOf(a, b) == (a.sign + b.sign) % 2

Mul(a, b) ==
    IF IsNaN(a) \/ IsNaN(b) THEN NaN
    ELSE IF IsInf(a) \/ IsInf(b)
    THEN (IF IsZero(a) \/ IsZero(b) THEN NaN ELSE Inf(SignOf(a, b)))
    ELSE IF IsZero(a) \/ IsZero(b) THEN FZero(SignOf(a, b))
    ELSE Round(SignOf(a, b), BMul(a.man, b.man), a.exp + b.exp, FALSE)

\* The significand of the powers of two
ManOne == BShl(<<1>>, Precision - 1)

\* qr is the quotient and the remainder of the significands
RoundQuotient(s, qr, e) == Round(s, qr[1], e, qr[2] # <<>>)

\* The significand of a is moved up by k bits, enough for a quotient of
\* 56 bits or more
DivShifted(a, b, k) ==
    RoundQuotient(SignOf(a, b), BDivMod(BShl(a.man, k), b.man), a.exp - b.exp - k)

\* a / b in IEEE 754 arithmetic, where a division by zero gives an
\* infinity or the NaN; a division by a power of two only moves the
\* exponent
Div(a, b) ==
    IF IsNaN(a) \/ IsNaN(b) THEN NaN
    ELSE IF IsInf(a) THEN (IF IsInf(b) THEN NaN ELSE Inf(SignOf(a, b)))
    ELSE IF IsInf(b) THEN FZero(SignOf(a, b))
    ELSE IF IsZero(b) THEN (IF IsZero(a) THEN NaN ELSE Inf(SignOf(a, b)))
    ELSE IF IsZero(a) THEN FZero(SignOf(a, b))
    ELSE IF b.man = ManOne
    THEN Round(SignOf(a, b), a.man, a.exp - b.exp - (Precision - 1), FALSE)
    ELSE DivShifted(a, b, 2 * Precision + 3 - BBitLen(a.man))

\* The double nearest to n/d: the value of the literal n/d in decimal
\* notation, and of the quotient of the ints n and d
Frac(n, d) == Div(Float(n), Float(d))
\* The largest r with r * r <= n, r built from bit downwards
RECURSIVE BSqrtFrom(_, _, _)
RECURSIVE BSqrtBit(_, _, _, _)
BSqrtFrom(n, r, bit) ==
    IF bit < 0 THEN r ELSE BSqrtBit(n, r, bit, BAdd(r, BShl(<<1>>, bit)))

\* t is r with the bit set, which stays set when t * t <= n
BSqrtBit(n, r, bit, t) ==
    IF BCmp(BMul(t, t), n) <= 0 THEN BSqrtFrom(n, t, bit - 1) ELSE BSqrtFrom(n, r, bit - 1)

\* The correctly rounded square root of a finite a > 0: the significand is
\* shifted to 111 or 112 bits with an even exponent, its integer root has
\* 56 bits
\* r is the integer root of n
RoundRoot(n, r, e) == Round(0, r, e, BMul(r, r) # n)

SqrtShifted(n, e) == RoundRoot(n, BSqrtFrom(n, <<>>, Precision + 2), e)

SqrtShiftBy(a, k) == IF (a.exp - k) % 2 = 0 THEN k ELSE k + 1

SqrtShift(a) == SqrtShiftBy(a, 2 * Precision + 5 - BBitLen(a.man))

\* The square root of IEEE 754: the NaN for a negative number, the
\* argument for a zero and for the positive infinity
Sqrt(a) ==
    IF IsNaN(a) THEN NaN
    ELSE IF IsZero(a) THEN a
    ELSE IF a.sign = 1 THEN NaN
    ELSE IF IsInf(a) THEN a
    ELSE SqrtShifted(BShl(a.man, SqrtShift(a)), (a.exp - SqrtShift(a)) \div 2)

\* a == b
Eq(a, b) == ~IsNaN(a) /\ ~IsNaN(b) /\ ((IsZero(a) /\ IsZero(b)) \/ a = b)

\* a < b
LtMagnitude(a, b) ==
    \/ a.exp < b.exp
    \/ a.exp = b.exp /\ BCmp(a.man, b.man) < 0

Lt(a, b) ==
    IF IsNaN(a) \/ IsNaN(b) THEN FALSE
    ELSE IF IsZero(a) THEN ~IsZero(b) /\ b.sign = 0
    ELSE IF IsZero(b) THEN a.sign = 1
    ELSE IF a.sign # b.sign THEN a.sign = 1
    ELSE IF a.sign = 0 THEN LtMagnitude(a, b)
    ELSE LtMagnitude(b, a)

\* format(x, ".2f"): "nan", "inf" and "-inf" for the values that are not
\* finite, and for a finite x the sign and the count of hundredths nearest
\* to |x|, ties of the binary value to even, the count a natural in limbs;
\* "-0.00" is the number with neg and no hundredths
\* q is n without its k low bits, c compares those bits with the half
NearestEven(q, c) == IF c > 0 \/ (c = 0 /\ BOdd(q)) THEN BAdd(q, <<1>>) ELSE q

\* The integer nearest to n / 2^k
Hundredths(n, k) ==
    IF k <= 0 THEN BShl(n, -k)
    ELSE NearestEven(BShr(n, k), BCmp(BLowBits(n, k), BShl(<<1>>, k - 1)))

format_2f(x) ==
    IF IsNaN(x) THEN [text |-> "nan", neg |-> FALSE, cents |-> <<>>]
    ELSE IF IsInf(x) THEN [text |-> "inf", neg |-> x.sign = 1, cents |-> <<>>]
    ELSE [text |-> "number", neg |-> x.sign = 1,
          cents |-> IF IsZero(x) THEN <<>> ELSE Hundredths(BMulSmall(x.man, 100), -x.exp)]

\* pow(x, 2.0) of the C library, which float.__pow__ calls for x ** 2 and
\* which is accurate to within one unit of the last place, not correctly
\* rounded: the result is one of the two doubles next to the square, and
\* the square itself when it is a double.  away is the set of the
\* arguments whose square the library rounds to the farther of the two.
\* float.__pow__ raises OverflowError when the result is infinite
libm_pow2(a, away) ==
    IF IsNaN(a) THEN NaN
    ELSE IF IsInf(a) THEN Inf(0)
    ELSE IF IsZero(a) THEN Zero
    ELSE RoundTo(0, BMul(a.man, a.man), 2 * a.exp, FALSE, FAbs(a) \notin away)

\* x ** 2 of a NumPy array, which multiplies each element by itself
np_square(a) == Mul(a, a)

(***************************************************************************)
(* Outcomes of a call: a returned value or a raised exception              *)
(***************************************************************************)
Ok(v) == [kind |-> "ok", val |-> v]

Raise(e, l) == [kind |-> "error", exc |-> e, line |-> l]

None == [kind |-> "none"]

\* A local variable: the statements Rest run with the variable bound to value
With(value, Rest(_)) == Rest(value)

\* The statements Rest run on the value of an outcome, and are skipped by
\* a raised exception, which goes on to the caller
Then(outcome, Rest(_)) == IF outcome.kind = "error" THEN outcome ELSE Rest(outcome.val)

\* Python's float division: a / b raises ZeroDivisionError when b == 0
truediv(a, b, l) == IF IsZero(b) THEN Raise("ZeroDivisionError", l) ELSE Ok(Div(a, b))

(***************************************************************************)
(* The formula library                                                     *)
(***************************************************************************)
\* The float literals of the program
Half == Frac(1, 2)

Two == Float(2)

TwoFifths == Frac(2, 5)

TwoThirds == Frac(2, 3)

OneTwelfth == Frac(1, 12)

OneThird == Frac(1, 3)

OneHundredth == Frac(1, 100)

Hundred == Float(100)

\* x ** 2 for a float x at line l: float.__pow__ returns what the C
\* library's pow gives, and raises OverflowError when a finite x gives an
\* infinite result
Pow2(x, away, l) ==
    IF ~IsInf(x) /\ IsInf(libm_pow2(x, away)) THEN Raise("OverflowError", l)
    ELSE Ok(libm_pow2(x, away))

\* c * x**2 at line l
times_square(c, x, away, l) == Then(Pow2(x, away, l), LAMBDA sq : Ok(Mul(c, sq)))

calculate_kinetic_energy_translational(mass, velocity, away) ==
    times_square(Mul(Half, mass), velocity, away, 8)

calculate_kinetic_energy_rotational(moment_inertia, angular_velocity, away) ==
    times_square(Mul(Half, moment_inertia), angular_velocity, away, 12)

DefaultG == Frac(981, 100)

calculate_potential_energy_gravitational(mass, height, g) ==
    Mul(Mul(mass, g), height)

calculate_potential_energy_elastic(spring_constant, displacement, away) ==
    times_square(Mul(Half, spring_constant), displacement, away, 20)

\* np.cos(np.radians(angle)) on the angles 0 and 180: cos(0.0) is 1.0, and
\* np.radians(180.0) is the double nearest to pi, whose cosine rounds to -1.0
cos_radians(angle) ==
    CASE angle = Float(0) -> Float(1)
      [] angle = Float(180) -> Float(-1)

calculate_work_constant_force(force, displacement, angle) ==
    Mul(Mul(force, displacement), cos_radians(angle))

(***************************************************************************)
(* np.trapz(y, x) for one-dimensional y and x                              *)
(***************************************************************************)
\* np.diff(x): x[1:] - x[:-1]
np_diff(x) == [i \in 1..(Len(x) - 1) |-> Sub(x[i + 1], x[i])]

\* y[1:] + y[:-1]
pair_sums(y) == [i \in 1..(Len(y) - 1) |-> Add(y[i + 1], y[i])]

\* NumPy broadcasts two one-dimensional operands when their lengths are
\* equal or one of them is 1
broadcastable(m, n) == m = n \/ m = 1 \/ n = 1

broadcast_len(m, n) == IF m = 1 THEN n ELSE m

broadcast_at(a, i) == IF Len(a) = 1 THEN a[1] ELSE a[i]

\* NumPy's pairwise summation of a[lo], ..., a[lo + n - 1].
\* Fewer than 8 terms are added one after the other onto -0.0.
RECURSIVE sum_onto(_, _, _, _)
sum_onto(res, a, lo, n) ==
    IF n = 0 THEN res ELSE Add(sum_onto(res, a, lo, n - 1), a[lo + n - 1])

\* Accumulator j of 8 after k further blocks of 8 terms
RECURSIVE accumulator(_, _, _, _)
accumulator(a, lo, j, k) ==
    IF k = 0 THEN a[lo + j]
    ELSE Add(accumulator(a, lo, j, k - 1), a[lo + 8 * k + j])

\* Up to 128 terms go to 8 accumulators that are added as a tree, and the
\* terms left over are added one after the other; more terms are split in
\* two halves, the first a multiple of 8 long
RECURSIVE pairwise_sum(_, _, _)
pairwise_sum(a, lo, n) ==
    IF n < 8 THEN sum_onto(NegZero, a, lo, n)
    ELSE IF n <= 128
    THEN With([j \in 0..7 |-> accumulator(a, lo, j, n \div 8 - 1)], LAMBDA r :
         sum_onto(Add(Add(Add(r[0], r[1]), Add(r[2], r[3])),
                      Add(Add(r[4], r[5]), Add(r[6], r[7]))),
                  a, lo + 8 * (n \div 8), n % 8))
    ELSE With((n \div 2) - ((n \div 2) % 8), LAMBDA n2 :
         Add(pairwise_sum(a, lo, n2), pairwise_sum(a, lo + n2, n - n2)))

\* a.sum(): the reduction starts from the identity 0.0 of the addition
np_sum(a) == Add(Zero, pairwise_sum(a, 1, Len(a)))

\* (d * (y[1:] + y[:-1]) / 2.0).sum()
np_trapz(y, x, l) ==
    With(np_diff(x), LAMBDA d :
    With(pair_sums(y), LAMBDA s :
    IF ~broadcastable(Len(d), Len(s))
    THEN Raise("ValueError", l)
    ELSE Ok(np_sum([i \in 1..broadcast_len(Len(d), Len(s)) |->
                Div(Mul(broadcast_at(d, i), broadcast_at(s, i)), Two)]))))

\* Variant: the two arguments of np.trapz are exchanged
calculate_work_variable_force_swapped(forces, displacements) ==
    np_trapz(displacements, forces, 28)

\* Variant: np.trapz(forces), which takes the samples as one unit apart
calculate_work_variable_force_unit_dx(forces, displacements) ==
    Ok(np_sum([i \in 1..(Len(forces) - 1) |-> Div(pair_sums(forces)[i], Two)]))

calculate_work_variable_force(forces, displacements) ==
    np_trapz(forces, displacements, 28)

\* Variant: the division is not guarded
calculate_power_unguarded(work, time) == truediv(work, time, 32)

\* work / time if time != 0 else 0
calculate_power(work, time) ==
    IF ~IsZero(time) THEN truediv(work, time, 32) ELSE Ok(Zero)

(***************************************************************************)
(* The moment-of-inertia resolver                                          *)
(***************************************************************************)
\* Variant: kwargs.get(key, 1)
kwargs_get_default_one(kwargs, key) == IF key \in DOMAIN kwargs THEN kwargs[key] ELSE Float(1)

\* kwargs.get(key, 0); the square of the int 0 is the int 0, which a
\* product with a float turns into 0.0
kwargs_get(kwargs, key) == IF key \in DOMAIN kwargs THEN kwargs[key] ELSE Zero

\* Variant: the fallback multiplies the custom inertia by the mass
get_moment_of_inertia_custom_scaled(shape, mass, kwargs, away) ==
    IF shape = "Esfera solida"
    THEN times_square(Mul(TwoFifths, mass), kwargs_get(kwargs, "radius"), away, 38)
    ELSE IF shape = "Esfera hueca"
    THEN times_square(Mul(TwoThirds, mass), kwargs_get(kwargs, "radius"), away, 41)
    ELSE IF shape = "Cilindro solido"
    THEN times_square(Mul(Half, mass), kwargs_get(kwargs, "radius"), away, 44)
    ELSE IF shape = "Cilindro hueco"
    THEN times_square(mass, kwargs_get(kwargs, "radius"), away, 47)
    ELSE IF shape = "Barra (eje central)"
    THEN times_square(Mul(OneTwelfth, mass), kwargs_get(kwargs, "length"), away, 50)
    ELSE IF shape = "Barra (extremo)"
    THEN times_square(Mul(OneThird, mass), kwargs_get(kwargs, "length"), away, 53)
    ELSE IF shape = "Disco"
    THEN times_square(Mul(Half, mass), kwargs_get(kwargs, "radius"), away, 56)
    ELSE Ok(Mul(mass, kwargs_get(kwargs, "custom_I")))

get_moment_of_inertia(shape, mass, kwargs, away) ==
    IF shape = "Esfera solida"
    THEN times_square(Mul(TwoFifths, mass), kwargs_get(kwargs, "radius"), away, 38)
    ELSE IF shape = "Esfera hueca"
    THEN times_square(Mul(TwoThirds, mass), kwargs_get(kwargs, "radius"), away, 41)
    ELSE IF shape = "Cilindro solido"
    THEN times_square(Mul(Half, mass), kwargs_get(kwargs, "radius"), away, 44)
    ELSE IF shape = "Cilindro hueco"
    THEN times_square(mass, kwargs_get(kwargs, "radius"), away, 47)
    ELSE IF shape = "Barra (eje central)"
    THEN times_square(Mul(OneTwelfth, mass), kwargs_get(kwargs, "length"), away, 50)
    ELSE IF shape = "Barra (extremo)"
    THEN times_square(Mul(OneThird, mass), kwargs_get(kwargs, "length"), away, 53)
    ELSE IF shape = "Disco"
    THEN times_square(Mul(Half, mass), kwargs_get(kwargs, "radius"), away, 56)
    ELSE Ok(kwargs_get(kwargs, "custom_I"))

(***************************************************************************)
(* The force-displacement chart                                            *)
(***************************************************************************)
\* ax.plot(x, y) refuses x and y of different first dimension
ax_plot(x, y) ==
    IF Len(x) # Len(y) THEN Raise("ValueError", 81) ELSE Ok(<<x, y>>)

\* ax.fill_between(x, y1): x, y1 and the baseline y2 = 0 are broadcast
\* against each other; the area lies between the curve and the baseline
ax_fill_between(x, y1) ==
    IF ~broadcastable(Len(x), Len(y1)) THEN Raise("ValueError", 82)
    ELSE Ok([x |-> x, y1 |-> y1, y2 |-> Zero])

\* Variant: the annotation integrates with the two arguments exchanged
plot_work_force_diagram_swapped(forces, displacements) ==
    With(ax_plot(displacements, forces), LAMBDA line :
    With(ax_fill_between(displacements, forces), LAMBDA area :
    With(np_trapz(displacements, forces, 89), LAMBDA work :
    IF line.kind = "error" THEN line
    ELSE IF area.kind = "error" THEN area
    ELSE IF work.kind = "error" THEN work
    ELSE Ok([line |-> line.val, area |-> area.val, work |-> work.val,
             text |-> format_2f(work.val)]))))

\* The figure is modelled by its line data (line 81), the filled area (line
\* 82), the work integrated at line 89 and the annotation text made from it
\* at line 90
plot_work_force_diagram(forces, displacements) ==
    With(ax_plot(displacements, forces), LAMBDA line :
    With(ax_fill_between(displacements, forces), LAMBDA area :
    With(np_trapz(forces, displacements, 89), LAMBDA work :
    IF line.kind = "error" THEN line
    ELSE IF area.kind = "error" THEN area
    ELSE IF work.kind = "error" THEN work
    ELSE Ok([line |-> line.val, area |-> area.val, work |-> work.val,
             text |-> format_2f(work.val)]))))

(***************************************************************************)
(* The energy-distribution chart: one bar per energy, each annotated with  *)
(* its value to two decimals, the text placed max(energies)*0.01 above it  *)
(***************************************************************************)
\* max(energies): the first of the largest values
RECURSIVE max_first(_, _)
max_first(energies, n) ==
    IF n = 1 THEN energies[1]
    ELSE LET m == max_first(energies, n - 1)
         IN  IF Lt(m, energies[n]) THEN energies[n] ELSE m

plot_energy_distribution(energies) ==
    [i \in 1..Len(energies) |->
        [height |-> energies[i],
         text_y |-> Add(energies[i], Mul(max_first(energies, Len(energies)), OneHundredth)),
         text |-> format_2f(energies[i])]]

\* st.pyplot(fig): the display of the figure succeeds or raises, as the
\* rendering backend decides
st_pyplot(fig, renders, l) == IF renders THEN Ok(fig) ELSE Raise("Exception", l)

(***************************************************************************)
(* main(): one pass per view                                               *)
(***************************************************************************)
RadiusShapes == {"Esfera solida", "Esfera hueca", "Cilindro solido", "Cilindro hueco", "Disco"}

RadiusShapesTotal == {"Esfera solida", "Cilindro solido", "Disco"}

LinspaceNum == 100

\* np.linspace(0, stop, num): i * step with step = (stop - 0) / (num - 1),
\* or (i / (num - 1)) * (stop - 0) when the step is 0; then the start 0 is
\* added and the last sample is set to stop
np_linspace(stop, num) ==
    With(Sub(stop, Zero), LAMBDA delta :
    With(Div(delta, Float(num - 1)), LAMBDA step :
    [i \in 1..num |->
        IF i = num THEN stop
        ELSE IF IsZero(step)
        THEN Add(Mul(Div(Float(i - 1), Float(num - 1)), delta), Zero)
        ELSE Add(Mul(Float(i - 1), step), Zero)]))

\* np.sqrt(x): nan for a negative x
np_sqrt(x) == Sqrt(x)

\* View "Energia Cinetica", lines 109-172.  The energies and the inertia
\* are computed before the try, so an OverflowError of theirs ends the
\* pass.  The try of lines 161-172 adds the two energies, draws the chart
\* and displays it; its bare except swallows whatever the block raises and
\* shows a warning instead
energia_cinetica(w) ==
    Then(calculate_kinetic_energy_translational(w.mass, w.velocity, w.pow_away),
         LAMBDA ek_trans :
    Then(IF w.shape = "Personalizado" THEN Ok(w.moment_inertia)
         ELSE IF w.shape \in RadiusShapes
              THEN get_moment_of_inertia(w.shape, w.mass_rot, [radius |-> w.geom], w.pow_away)
              ELSE get_moment_of_inertia(w.shape, w.mass_rot, [length |-> w.geom], w.pow_away),
         LAMBDA moment_inertia :
    Then(calculate_kinetic_energy_rotational(moment_inertia, w.angular_velocity, w.pow_away),
         LAMBDA ek_rot :
    With(Add(ek_trans, ek_rot), LAMBDA ek_total :
    With(st_pyplot(plot_energy_distribution(<<ek_trans, ek_rot, ek_total>>), w.renders, 169),
         LAMBDA shown :
    Ok([ek_trans |-> ek_trans, ek_trans_text |-> format_2f(ek_trans),
        moment_inertia |-> moment_inertia,
        ek_rot |-> ek_rot, ek_rot_text |-> format_2f(ek_rot),
        ek_total |-> ek_total, ek_total_text |-> format_2f(ek_total),
        fig |-> IF shown.kind = "error" THEN [kind |-> "warning"] ELSE shown]))))))

\* View "Energia Potencial", lines 174-205
energia_potencial(w) ==
    With(calculate_potential_energy_gravitational(w.mass_grav, w.height, w.g),
         LAMBDA ep_grav :
    Then(calculate_potential_energy_elastic(w.spring_constant, w.displacement, w.pow_away),
         LAMBDA ep_elastic :
    Ok([ep_grav |-> ep_grav, ep_grav_text |-> format_2f(ep_grav),
        ep_elastic |-> ep_elastic, ep_elastic_text |-> format_2f(ep_elastic)])))

\* The sampled curve of tab "Fuerza Variable", lines 242-289: <<x_vals, forces>>
force_curve(w) ==
    IF w.force_type = "Lineal"
    THEN With(np_linspace(w.x_max, LinspaceNum), LAMBDA x_vals :
         <<x_vals, [i \in 1..Len(x_vals) |-> Add(Mul(w.a, x_vals[i]), w.b)]>>)
    ELSE IF w.force_type = "Cuadratica"
    THEN With(np_linspace(w.x_max, LinspaceNum), LAMBDA x_vals :
         <<x_vals, [i \in 1..Len(x_vals) |->
             Add(Add(Mul(w.a, np_square(x_vals[i])), Mul(w.b, x_vals[i])), w.c)]>>)
    ELSE <<[i \in 1..w.n_points |-> w.data[i][1]], [i \in 1..w.n_points |-> w.data[i][2]]>>

\* View "Trabajo", lines 207-297
trabajo(w) ==
    With(calculate_work_constant_force(w.const.force, w.const.displacement_const,
                                       w.const.angle), LAMBDA work_const :
    With(force_curve(w.var), LAMBDA curve :
    With(curve[1], LAMBDA x_vals :
    With(curve[2], LAMBDA forces :
    With(calculate_work_variable_force(forces, x_vals), LAMBDA work_var :
    With(plot_work_force_diagram(forces, x_vals), LAMBDA fig :
    IF work_var.kind = "error" THEN work_var
    ELSE IF fig.kind = "error" THEN fig
    ELSE With(st_pyplot(fig.val, w.renders, 297), LAMBDA shown :
         IF shown.kind = "error" THEN shown
         ELSE Ok([work_const |-> work_const, work_const_text |-> format_2f(work_const),
                  work_var |-> work_var.val, work_var_text |-> format_2f(work_var.val),
                  fig |-> fig.val]))))))))

\* View "Analisis Completo", lines 305-330: the inertia and the energies
analisis_energies(w) ==
    Then(IF w.shape_total \in RadiusShapesTotal
         THEN get_moment_of_inertia(w.shape_total, w.mass_total, [radius |-> w.geom], w.pow_away)
         ELSE get_moment_of_inertia(w.shape_total, w.mass_total, [length |-> w.geom], w.pow_away),
         LAMBDA I_total :
    Then(calculate_kinetic_energy_translational(w.mass_total, w.v_total, w.pow_away),
         LAMBDA ek_trans_total :
    Then(calculate_kinetic_energy_rotational(I_total, w.omega_total, w.pow_away),
         LAMBDA ek_rot_total :
    With(calculate_potential_energy_gravitational(w.mass_total, w.h_total, DefaultG),
         LAMBDA ep_grav_total :
    Ok([I_total |-> I_total, ek_trans_total |-> ek_trans_total,
        ek_rot_total |-> ek_rot_total, ep_grav_total |-> ep_grav_total,
        total_energy |-> Add(Add(ek_trans_total, ek_rot_total), ep_grav_total)])))))

\* The chart, then the percentages and the equivalent quantities of lines
\* 332-370, which divide by total_energy, mass_total and I_total in this
\* order
analisis_results(w, e) ==
    With(plot_energy_distribution(<<e.ek_trans_total, e.ek_rot_total, e.ep_grav_total>>),
         LAMBDA fig :
    Then(st_pyplot(fig, w.renders, 349), LAMBDA shown :
    Then(truediv(e.ek_trans_total, e.total_energy, 360), LAMBDA pct_trans :
    Then(truediv(e.ek_rot_total, e.total_energy, 361), LAMBDA pct_rot :
    Then(truediv(Mul(Two, e.total_energy), w.mass_total, 367), LAMBDA v_eq :
    Then(truediv(e.total_energy, Mul(w.mass_total, DefaultG), 368), LAMBDA h_eq :
    Then(truediv(Mul(Two, e.total_energy), e.I_total, 369), LAMBDA omega_eq :
    Ok([I_total |-> e.I_total, ek_trans_total |-> e.ek_trans_total,
        ek_rot_total |-> e.ek_rot_total, ep_grav_total |-> e.ep_grav_total,
        total_energy |-> e.total_energy,
        total_energy_text |-> format_2f(e.total_energy),
        fig |-> fig,
        pct_trans |-> Mul(pct_trans, Hundred),
        pct_rot |-> Mul(pct_rot, Hundred),
        v_eq |-> np_sqrt(v_eq), h_eq |-> h_eq,
        omega_eq |-> np_sqrt(omega_eq)]))))))))

\* View "Analisis Completo", lines 299-370
analisis_completo(w) == Then(analisis_energies(w), LAMBDA e : analisis_results(w, e))

(***************************************************************************)
(* The calls explored: argument values and widget values                   *)
(***************************************************************************)
Shapes == {"Esfera solida", "Esfera hueca", "Cilindro solido", "Cilindro hueco",
           "Barra (eje central)", "Barra (extremo)", "Disco", "Personalizado"}

ShapesTotal == {"Esfera solida", "Cilindro solido", "Disco", "Barra (eje central)"}

\* Shape names the resolver may be handed: the eight of the selectbox and
\* one it has never heard of
ShapeArgs == Shapes \cup {"Cono"}

MassVals == {Float(-1), Frac(1, 10), Float(3), Float(5)}

\* The double of the literal 1e200, 0x1.4e718d7d7625ap+664, whose square is
\* beyond the doubles
Huge == [sign |-> 0, man |-> <<8794, 8029, 12685, 1337>>, exp |-> 612]

\* 95.97 is a value whose square the pow of glibc 2.36 rounds to the
\* farther neighbour
GeomVals == {Frac(3, 10), Float(2), Frac(9597, 100), Huge}

\* The arguments whose square the C library's pow may round to the
\* farther neighbour
PowAwayVals == {Frac(3, 10), Frac(9597, 100)}

KwargKeys == {"radius", "length", "custom_I"}

Kwargs == UNION {[K -> GeomVals] : K \in SUBSET KwargKeys}

SeqVals == {Float(0), Frac(3, 10), Float(10)}

Seqs == UNION {[1..n -> SeqVals] : n \in 0..MaxLen}

InertiaCalls ==
    [fn : {"get_moment_of_inertia"}, shape : ShapeArgs, mass : MassVals, kwargs : Kwargs,
     pow_away : SUBSET PowAwayVals]

WorkVariableCalls ==
    [fn : {"calculate_work_variable_force"}, forces : Seqs, displacements : Seqs]

PlotCalls ==
    [fn : {"plot_work_force_diagram"}, forces : Seqs, displacements : Seqs]

PowerCalls ==
    [fn : {"calculate_power"},
     work : {Float(-1), Float(0), Frac(1, 10), Float(100)},
     time : {Float(-2), Float(0), NegZero, Frac(3, 10), Float(4)}]

WorkConstantCalls ==
    [fn : {"calculate_work_constant_force"},
     force : {Float(-1), Float(0), Frac(3, 10), Float(10)},
     displacement : {Float(-1), Float(0), Frac(1, 10), Float(5)},
     angle : {Float(0), Float(180)}]

\* Widgets of view "Energia Cinetica": masses from 0.1, radius and length
\* from 0.01; renders tells whether st.pyplot displays the chart
CineticaWidgets ==
    [mass : {Frac(1, 10), Float(1)}, velocity : {Float(-1), Float(10), Huge},
     shape : Shapes, angular_velocity : {Float(0), Float(5)},
     moment_inertia : {Float(1)}, mass_rot : {Float(1)},
     geom : {Frac(1, 100), Frac(3, 10)}, renders : BOOLEAN,
     pow_away : SUBSET PowAwayVals]

PotencialWidgets ==
    [mass_grav : {Frac(1, 10), Float(1)}, height : {Float(-1), Float(10)},
     g : {Float(0), DefaultG}, spring_constant : {Float(100)},
     displacement : {Frac(-3, 10), Frac(1, 2), Huge},
     pow_away : SUBSET PowAwayVals]

\* Widgets of view "Trabajo": the constant-force tab and one of the three
\* kinds of force curve; the custom table has 2 to 20 rows <<x, f>>
ConstantTab == [force : {Frac(981, 100)}, displacement_const : {Frac(1, 2)},
                angle : {Float(0)}]

LinealTab == [force_type : {"Lineal"}, a : {Float(0), Float(10)},
              b : {Float(1), Float(10)}, x_max : {Float(0), Float(5)}]

CuadraticaTab == [force_type : {"Cuadratica"}, a : {Float(0), Float(1)},
                  b : {Float(0), Float(10)}, c : {Frac(1, 10)},
                  x_max : {Float(5)}]

CustomTab == UNION {[force_type : {"Datos personalizados"}, n_points : {n},
                     data : [1..n -> SeqVals \X SeqVals]] : n \in 2..MaxLen}

TrabajoWidgets ==
    {[const |-> c, var |-> v, renders |-> r] :
        c \in ConstantTab, v \in LinealTab \cup CuadraticaTab \cup CustomTab,
        r \in BOOLEAN}

\* Widgets of view "Analisis Completo": mass from 0.1, everything else free
AnalisisWidgets ==
    [mass_total : {Float(2), Float(5)}, shape_total : ShapesTotal,
     geom : {Float(-1), Float(0), Frac(3, 10), Huge},
     v_total : {Float(0), Float(5), Huge},
     omega_total : {Float(0), Float(3), Huge},
     h_total : {Float(-1), Float(0), Float(5)}, renders : BOOLEAN,
     pow_away : SUBSET PowAwayVals]

MainCalls ==
    [fn : {"main"}, calculation_type : {"Energia Cinetica"}, w : CineticaWidgets]
    \cup [fn : {"main"}, calculation_type : {"Energia Potencial"}, w : PotencialWidgets]
    \cup [fn : {"main"}, calculation_type : {"Trabajo"}, w : TrabajoWidgets]
    \cup [fn : {"main"}, calculation_type : {"Analisis Completo"}, w : AnalisisWidgets]

Calls ==
    InertiaCalls \cup WorkVariableCalls \cup PlotCalls \cup PowerCalls
    \cup WorkConstantCalls \cup MainCalls

(***************************************************************************)
(* The state machine                                                       *)
(***************************************************************************)
Init ==
    /\ call \in Calls
    /\ pc = "call"
    /\ ret = None

Return(r) ==
    /\ pc = "call"
    /\ pc' = "done"
    /\ ret' = r
    /\ UNCHANGED call

GetMomentOfInertia ==
    /\ call.fn = "get_moment_of_inertia"
    /\ Return(get_moment_of_inertia(call.shape, call.mass, call.kwargs, call.pow_away))

CalculateWorkVariableForce ==
    /\ call.fn = "calculate_work_variable_force"
    /\ Return(calculate_work_variable_force(call.forces, call.displacements))

PlotWorkForceDiagram ==
    /\ call.fn = "plot_work_force_diagram"
    /\ Return(plot_work_force_diagram(call.forces, call.displacements))

CalculatePower ==
    /\ call.fn = "calculate_power"
    /\ Return(calculate_power(call.work, call.time))

CalculateWorkConstantForce ==
    /\ call.fn = "calculate_work_constant_force"
    /\ Return(Ok(calculate_work_constant_force(call.force, call.displacement, call.angle)))

MainEnergiaCinetica ==
    /\ call.fn = "main"
    /\ call.calculation_type = "Energia Cinetica"
    /\ Return(energia_cinetica(call.w))

MainEnergiaPotencial ==
    /\ call.fn = "main"
    /\ call.calculation_type = "Energia Potencial"
    /\ Return(energia_potencial(call.w))

MainTrabajo ==
    /\ call.fn = "main"
    /\ call.calculation_type = "Trabajo"
    /\ Return(trabajo(call.w))

MainAnalisisCompleto ==
    /\ call.fn = "main"
    /\ call.calculation_type = "Analisis Completo"
    /\ Return(analisis_completo(call.w))

Next ==
    \/ GetMomentOfInertia
    \/ CalculateWorkVariableForce
    \/ PlotWorkForceDiagram
    \/ CalculatePower
    \/ CalculateWorkConstantForce
    \/ MainEnergiaCinetica
    \/ MainEnergiaPotencial
    \/ MainTrabajo
    \/ MainAnalisisCompleto

Spec == Init /\ [][Next]_vars

(***************************************************************************)
(* Properties                                                              *)
(***************************************************************************)
Done(f) == pc = "done" /\ call.fn = f

DoneView(v) == Done("main") /\ call.calculation_type = v

\* |a - b| <= 10^-9 * |scale|: equal up to the rounding of the arithmetic
Tolerance == Frac(1, 1000000000)

Close(a, b, scale) == ~Lt(Mul(Tolerance, FAbs(scale)), FAbs(Sub(a, b)))

\* The text of a finite number of n hundredths
Text_2f(neg, n) == [text |-> "number", neg |-> neg, cents |-> BFromInt(n)]

\* The table of section 4.2: coefficient and required parameter per shape
TabulatedShapes == {"Esfera solida", "Esfera hueca", "Cilindro solido", "Cilindro hueco",
                    "Barra (eje central)", "Barra (extremo)", "Disco"}

TableCoefficient(shape) ==
    CASE shape = "Esfera solida" -> Frac(2, 5)
      [] shape = "Esfera hueca" -> Frac(2, 3)
      [] shape = "Cilindro solido" -> Frac(1, 2)
      [] shape = "Cilindro hueco" -> Float(1)
      [] shape = "Barra (eje central)" -> Frac(1, 12)
      [] shape = "Barra (extremo)" -> Frac(1, 3)
      [] shape = "Disco" -> Frac(1, 2)

RequiredParam(shape) ==
    IF shape \in {"Barra (eje central)", "Barra (extremo)"} THEN "length" ELSE "radius"

\* coefficient * m * x^2, evaluated in doubles from left to right
TableInertia(shape, m, x) == Mul(Mul(TableCoefficient(shape), m), Mul(x, x))

TableCall ==
    /\ Done("get_moment_of_inertia")
    /\ call.shape \in TabulatedShapes
    /\ RequiredParam(call.shape) \in DOMAIN call.kwargs

\* C1: for a tabulated shape whose required parameter is
\* supplied, get_moment_of_inertia returns, for every mass and geometry
\* value, exactly the table formula of that shape; a solid sphere of mass 5
\* and radius 2 gives 8, a rod about its centre of mass 3 and length 2
\* gives 1.
C1_TableFormulaExact ==
    TableCall
    => /\ ret = Ok(TableInertia(call.shape, call.mass, call.kwargs[RequiredParam(call.shape)]))
       /\ (call.shape = "Esfera solida" /\ call.mass = Float(5)
              /\ call.kwargs["radius"] = Float(2)) => ret.val = Float(8)
       /\ (call.shape = "Barra (eje central)" /\ call.mass = Float(3)
              /\ call.kwargs["length"] = Float(2)) => ret.val = Float(1)

\* The composite trapezoidal sum of section 4.1 over the pairs i, i+1 for
\* i = 1 .. n, added in the order of the samples
RECURSIVE TrapezoidSum(_, _, _)
TrapezoidSum(f, x, n) ==
    IF n = 0 THEN Zero
    ELSE Add(TrapezoidSum(f, x, n - 1),
             Mul(Div(Add(f[n], f[n + 1]), Float(2)), Sub(x[n + 1], x[n])))

\* C2: on two sequences of the same length N >= 2, sorted or not,
\* calculate_work_variable_force returns the sum over the adjacent pairs of
\* (f_i + f_{i+1})/2 * (x_{i+1} - x_i).
C2_Trapezoid ==
    (Done("calculate_work_variable_force") /\ Len(call.forces) = Len(call.displacements)
        /\ Len(call.forces) >= 2)
    => /\ ret.kind = "ok"
       /\ Eq(ret.val, TrapezoidSum(call.forces, call.displacements, Len(call.forces) - 1))

C2_Witness ==
    /\ Done("calculate_work_variable_force")
    /\ call.forces = <<Float(10), Frac(3, 10), Float(0)>>
    /\ call.displacements = <<Float(10), Float(0), Frac(3, 10)>>
    /\ ret.kind = "ok"
    /\ format_2f(ret.val) = Text_2f(TRUE, 5145)

\* C3: a call of calculate_work_variable_force or plot_work_force_diagram
\* with sequences of different lengths always ends in an error.
C3_MismatchIsError ==
    (pc = "done"
        /\ call.fn \in {"calculate_work_variable_force", "plot_work_force_diagram"}
        /\ Len(call.forces) # Len(call.displacements))
    => ret.kind = "error"

\* C4: calculate_power returns 0 without an error when time is 0, whatever
\* the work (100 and 0 give 0), and work/time when time is not 0.
C4_Power ==
    Done("calculate_power")
    => /\ Eq(call.time, Zero) => ret = Ok(Zero)
       /\ ~Eq(call.time, Zero) => ret = Ok(Div(call.work, call.time))

C4_Witness ==
    /\ Done("calculate_power")
    /\ call.work = Float(100)
    /\ call.time = Zero
    /\ ret = Ok(Zero)

ConstantCurve(forces) == \A i \in 1..Len(forces) : forces[i] = forces[1]

\* The largest |x[i]| for i in 1..n
RECURSIVE MaxAbs(_, _)
MaxAbs(x, n) ==
    IF n = 0 THEN Zero
    ELSE LET m == MaxAbs(x, n - 1)
         IN  IF Lt(m, FAbs(x[n])) THEN FAbs(x[n]) ELSE m

\* A call of calculate_work_variable_force on a constant force curve over
\* displacements that start at 0
ConstantCurveCall ==
    /\ Done("calculate_work_variable_force")
    /\ Len(call.forces) = Len(call.displacements)
    /\ Len(call.forces) >= 2
    /\ ConstantCurve(call.forces)
    /\ call.displacements[1] = Zero

\* A pass of the variable-force view on the curve F(x) = 0 * x + b sampled
\* at 100 points of [0, x_max]
ConstantCurvePass ==
    /\ DoneView("Trabajo")
    /\ call.w.renders
    /\ call.w.var.force_type = "Lineal"
    /\ call.w.var.a = Zero

\* C5 as stated: on a constant force curve [F, ..., F] of N >= 2 samples
\* over displacements that run from 0 to d, calculate_work_variable_force
\* returns F*d, which is calculate_work_constant_force(F, d, 0); so does the
\* pass of the variable-force view on a constant curve of 100 samples (10
\* over [0, 5] gives 50).
C5_ConstantCurveExact ==
    /\ ConstantCurveCall
       => LET F == call.forces[1]
              d == call.displacements[Len(call.displacements)]
          IN  /\ ret.kind = "ok"
              /\ Eq(ret.val, Mul(F, d))
              /\ Eq(ret.val, calculate_work_constant_force(F, d, Float(0)))
    /\ ConstantCurvePass
       => /\ ret.kind = "ok"
          /\ Eq(ret.val.work_var,
                calculate_work_constant_force(call.w.var.b, call.w.var.x_max, Float(0)))
          /\ (call.w.var.b = Float(10) /\ call.w.var.x_max = Float(5))
                => ret.val.work_var = Float(50)

\* C5: on a constant force curve [F, ..., F] of N >= 2 samples over
\* displacements that run from 0 to d, calculate_work_variable_force returns
\* F*d up to the rounding of the float arithmetic (within 10^-9 of |F|
\* times the largest |displacement|), F*d being exactly
\* calculate_work_constant_force(F, d, 0); so does the pass of the
\* variable-force view on a constant curve of 100 samples, and 10 over
\* [0, 5] gives exactly 50.
C5_ConstantCurve ==
    /\ ConstantCurveCall
       => LET F == call.forces[1]
              d == call.displacements[Len(call.displacements)]
              scale == Mul(F, MaxAbs(call.displacements, Len(call.displacements)))
          IN  /\ ret.kind = "ok"
              /\ Close(ret.val, Mul(F, d), scale)
              /\ Mul(F, d) = calculate_work_constant_force(F, d, Float(0))
    /\ ConstantCurvePass
       => /\ ret.kind = "ok"
          /\ Close(ret.val.work_var,
                   calculate_work_constant_force(call.w.var.b, call.w.var.x_max, Float(0)),
                   Mul(call.w.var.b, call.w.var.x_max))
          /\ (call.w.var.b = Float(10) /\ call.w.var.x_max = Float(5))
                => ret.val.work_var = Float(50)

C5_Witness ==
    /\ Done("calculate_work_variable_force")
    /\ call.forces = <<Frac(3, 10), Frac(3, 10), Frac(3, 10)>>
    /\ call.displacements = <<Float(0), Frac(3, 10), Float(10)>>
    /\ ret.kind = "ok"
    /\ ~Eq(ret.val, Float(3))
    /\ Close(ret.val, Float(3), Float(3))

\* C6: the work plot_work_force_diagram annotates is the value
\* calculate_work_variable_force returns for the same two sequences, and in
\* a pass of the variable-force view the displayed work and the annotation
\* are the same value and the same text.
C6_AnnotationAgrees ==
    /\ (Done("plot_work_force_diagram") /\ ret.kind = "ok")
       => Ok(ret.val.work) = calculate_work_variable_force(call.forces, call.displacements)
    /\ (DoneView("Trabajo") /\ call.w.renders)
       => /\ ret.kind = "ok"
          /\ ret.val.fig.work = ret.val.work_var
          /\ ret.val.fig.text = ret.val.work_var_text

C6_Witness ==
    /\ DoneView("Trabajo")
    /\ call.w.var.force_type = "Datos personalizados"
    /\ call.w.var.data = <<<<Float(0), Float(10)>>, <<Float(10), Frac(3, 10)>>,
                           <<Frac(3, 10), Float(0)>>>>
    /\ ret.kind = "ok"
    /\ ret.val.fig.work = ret.val.work_var
    /\ ret.val.fig.text = Text_2f(FALSE, 5005)
    /\ ret.val.work_var_text = Text_2f(FALSE, 5005)

\* C7: for a shape that is not one of the seven tabulated ones,
\* get_moment_of_inertia returns the supplied custom inertia unchanged,
\* whatever the mass, radius and length, and 0 when none is supplied.
C7_CustomFallback ==
    (Done("get_moment_of_inertia") /\ call.shape \notin TabulatedShapes)
    => ret = Ok(IF "custom_I" \in DOMAIN call.kwargs THEN call.kwargs["custom_I"] ELSE Zero)

C7_Witness ==
    /\ Done("get_moment_of_inertia")
    /\ call.shape = "Personalizado"
    /\ call.mass = Float(5)
    /\ DOMAIN call.kwargs = KwargKeys
    /\ call.kwargs["radius"] = Float(2)
    /\ call.kwargs["length"] = Huge
    /\ call.kwargs["custom_I"] = Frac(3, 10)
    /\ ret = Ok(Frac(3, 10))

\* C8: for a tabulated shape whose required parameter is not supplied,
\* get_moment_of_inertia returns 0 for every mass, whatever else is supplied.
C8_MissingParamGivesZero ==
    (Done("get_moment_of_inertia") /\ call.shape \in TabulatedShapes
        /\ RequiredParam(call.shape) \notin DOMAIN call.kwargs)
    => ret.kind = "ok" /\ Eq(ret.val, Zero)

C8_Witness ==
    /\ Done("get_moment_of_inertia")
    /\ call.shape = "Esfera solida"
    /\ call.mass = Float(5)
    /\ DOMAIN call.kwargs = {"length", "custom_I"}
    /\ call.kwargs["length"] = Float(2)
    /\ ret = Ok(Zero)

\* g = 9.81
StandardGravity == Frac(981, 100)

\* The energies of section 4.1 with the inertia of the table of section 4.2
\* and g = 9.81, each product and the sum evaluated from left to right;
\* sq_x, sq_v and sq_omega are the squares of the geometry value, of the
\* velocity and of the angular velocity
Energies(w, sq_x, sq_v, sq_omega) ==
    [I_total |-> Mul(Mul(TableCoefficient(w.shape_total), w.mass_total), sq_x),
     ek_trans_total |-> Mul(Mul(Frac(1, 2), w.mass_total), sq_v),
     ek_rot_total |->
        Mul(Mul(Frac(1, 2), Mul(Mul(TableCoefficient(w.shape_total), w.mass_total), sq_x)),
            sq_omega),
     ep_grav_total |-> Mul(Mul(w.mass_total, StandardGravity), w.h_total)]

WithTotal(e) ==
    [k \in DOMAIN e \cup {"total_energy"} |->
        IF k = "total_energy"
        THEN Add(Add(e.ek_trans_total, e.ek_rot_total), e.ep_grav_total)
        ELSE e[k]]

\* With the correctly rounded squares
ExpectedTotal(w) ==
    WithTotal(Energies(w, Mul(w.geom, w.geom), Mul(w.v_total, w.v_total),
                       Mul(w.omega_total, w.omega_total)))

\* The energies a pass has returned
ReturnedEnergies ==
    [k \in {"I_total", "ek_trans_total", "ek_rot_total", "ep_grav_total", "total_energy"}
        |-> ret.val[k]]

\* The pass computes the energies of section 4.1
TotalIsSumExact ==
    /\ analisis_energies(call.w) = Ok(ExpectedTotal(call.w))
    /\ ret.kind = "ok" => ReturnedEnergies = ExpectedTotal(call.w)

\* The scenario of section 6: mass 2, v 5, solid cylinder of radius 0.3,
\* omega 3, h 5
Scenario ==
    /\ DoneView("Analisis Completo")
    /\ call.w.renders
    /\ call.w.mass_total = Float(2)
    /\ call.w.shape_total = "Cilindro solido"
    /\ call.w.geom = Frac(3, 10)
    /\ call.w.v_total = Float(5)
    /\ call.w.omega_total = Float(3)
    /\ call.w.h_total = Float(5)

\* C9: in a complete-analysis pass the total energy is the sum of
\* the translational, rotational and gravitational energies, with the
\* inertia of the selected shape, the same mass and the entered radius or
\* length, and g = 9.81; in the scenario the components are 25, 0.405
\* (I = 0.09) and 98.1 and the total is 123.505.
C9_TotalEnergyExact ==
    /\ DoneView("Analisis Completo") => TotalIsSumExact
    /\ Scenario
       => /\ ret.kind = "ok"
          /\ ret.val.ek_trans_total = Float(25)
          /\ ret.val.I_total = Frac(9, 100)
          /\ ret.val.ek_rot_total = Frac(405, 1000)
          /\ ret.val.ep_grav_total = Frac(981, 10)
          /\ ret.val.total_energy = Frac(123505, 1000)

\* C10: every complete-analysis pass whose chart is displayed runs to
\* completion: no divisor is zero.
C10_AnalisisCompletes ==
    (DoneView("Analisis Completo") /\ call.w.renders) => ret.kind = "ok"

====
